---- MODULE Spec2Model ----
(***************************************************************************)
(* Model of the three rocket flight simulators                             *)
(*   src/simulator_v1.py  1-DOF point mass, thrust and gravity             *)
(*   src/simulator_v2.py  1-DOF point mass with quadratic drag             *)
(*   src/simulator_v3.py  2-D rigid body with attitude dynamics            *)
(*                                                                         *)
(* Every script is a straight-line program: parameter definitions, one     *)
(* while loop, and a post-processing section.  An execution of a script is *)
(* a record of the script's module-level variables; cfg[i] holds the       *)
(* parameter constants of execution i and st[i] its variables.             *)
(*                                                                         *)
(* Python floats are modelled as fixed-point numbers: the integer n stands *)
(* for the real n / Scale.  Products and quotients round toward zero,      *)
(* which is sign-symmetric like IEEE rounding.  The time unit is one       *)
(* integration step, so dt is 1.0.                                         *)
(***************************************************************************)
EXTENDS Integers, Sequences, FiniteSets, TLC

VARIABLES cfg, st

vars == <<cfg, st>>

(* ------------------------------------------------------------------ *)
(* Fixed-point arithmetic                                             *)
(* ------------------------------------------------------------------ *)

\* resolution of the fixed-point numbers: n stands for n / Scale
Scale == 100

\* the number of loop iterations explored per execution; the scripts
\* themselves have no such limit
MaxSteps == 40

Abs(a) == IF a < 0 THEN -a ELSE a

\* a / b rounded toward zero (float division is sign-symmetric)
TDiv(a, b) ==
    IF (a < 0) = (b < 0) THEN Abs(a) \div Abs(b) ELSE -(Abs(a) \div Abs(b))

\* float product  a * b
FMul(a, b) == TDiv(a * b, Scale)

\* float quotient  a / b
FDiv(a, b) == TDiv(a * Scale, b)

\* the float literal for a whole number
Num(n) == n * Scale

Last(s) == s[Len(s)]

RECURSIVE SeqMax(_)
SeqMax(s) ==
    IF Len(s) = 1 THEN s[1]
    ELSE LET r == SeqMax(Tail(s)) IN IF s[1] >= r THEN s[1] ELSE r

\* np.argmax: index of the first occurrence of the maximum
ArgMax(s) == CHOOSE i \in 1..Len(s) :
                 /\ s[i] = SeqMax(s)
                 /\ \A j \in 1..(i - 1) : s[j] < s[i]

\* np.max
NpMax(s) == SeqMax(s)

\* simulation step size (s); the model's time unit is one step
dt == Num(1)

(* ------------------------------------------------------------------ *)
(* simulator_v1.py                                                    *)
(* ------------------------------------------------------------------ *)

\* mass_flow_rate = propellant_mass / burn_time
MassFlowRate(p) == FDiv(p.propellant_mass, p.burn_time)

\* burnout_mass = initial_mass - propellant_mass
BurnoutMass(p) == p.initial_mass - p.propellant_mass

\* the engine state test with the comparison inverted
CurrentThrustInverted(t, p) == IF t > p.burn_time THEN p.thrust ELSE 0

\* thrust selected by the engine state test  t < burn_time
CurrentThrust(t, p) == IF t < p.burn_time THEN p.thrust ELSE 0

\* the mass without the burnout branch: it keeps falling after burnout
CurrentMassUnclamped(t, p) == p.initial_mass - FMul(MassFlowRate(p), t)

\* mass selected by the engine state test  t < burn_time
CurrentMass(t, p) ==
    IF t < p.burn_time
    THEN p.initial_mass - FMul(MassFlowRate(p), t)
    ELSE BurnoutMass(p)

\* v = v + a * dt ; h = h + v * dt   (position uses the updated velocity)
V1Euler(h, v, a) ==
    LET v_new == v + FMul(a, dt)
    IN  <<v_new, h + FMul(v_new, dt)>>

\* the loop test written with a strict comparison
V1LoopCondStrict(s) == s.h > 0 \/ s.t = 0

\* while h >= 0 or t == 0
V1LoopCond(s) == s.h >= 0 \/ s.t = 0

V1Init(p) ==
    [pc |-> "loop", t |-> 0, h |-> 0, v |-> 0, m |-> p.initial_mass,
     time_list |-> <<>>, height_list |-> <<>>, velocity_list |-> <<>>,
     acceleration_list |-> <<>>,
     current_thrust |-> 0, F_net |-> 0, a |-> 0,
     apogee_index |-> 0, apogee_height |-> 0, apogee_time |-> 0,
     max_velocity |-> 0]

\* one iteration of the main loop
V1Body(s, p) ==
    LET current_thrust == CurrentThrust(s.t, p)
        m == CurrentMass(s.t, p)
        F_net == current_thrust - FMul(m, p.g)
        a == FDiv(F_net, m)
        vh == V1Euler(s.h, s.v, a)
    IN  [s EXCEPT
           !.time_list = Append(s.time_list, s.t),
           !.height_list = Append(s.height_list, s.h),
           !.velocity_list = Append(s.velocity_list, s.v),
           !.current_thrust = current_thrust,
           !.m = m,
           !.F_net = F_net,
           !.a = a,
           !.acceleration_list = Append(s.acceleration_list, a),
           !.v = vh[1],
           !.h = vh[2],
           !.t = s.t + dt]

\* max_velocity = np.max(velocity_array)
V1MaxVelocity(velocity_list) == NpMax(velocity_list)

\* data processing after the loop
V1PostBody(s) ==
    LET apogee_index == ArgMax(s.height_list)
    IN  [s EXCEPT
           !.pc = "done",
           !.apogee_index = apogee_index,
           !.apogee_height = s.height_list[apogee_index],
           !.apogee_time = s.time_list[apogee_index],
           !.max_velocity = V1MaxVelocity(s.velocity_list)]

V1Loop ==
    \E i \in DOMAIN st :
    /\ cfg[i].script = 1
    /\ st[i].pc = "loop"
    /\ V1LoopCond(st[i])
    /\ Len(st[i].time_list) < MaxSteps
    /\ st' = [st EXCEPT ![i] = V1Body(st[i], cfg[i])]
    /\ UNCHANGED cfg

V1Post ==
    \E i \in DOMAIN st :
    /\ cfg[i].script = 1
    /\ st[i].pc = "loop"
    /\ ~V1LoopCond(st[i])
    /\ st' = [st EXCEPT ![i] = V1PostBody(st[i])]
    /\ UNCHANGED cfg

(* ------------------------------------------------------------------ *)
(* numpy functions                                                    *)
(* ------------------------------------------------------------------ *)

\* np.pi
Pi == 314

\* x ** 2
Sq(x) == FMul(x, x)

\* np.sign
Sign(x) == IF x > 0 THEN Num(1) ELSE IF x < 0 THEN -Num(1) ELSE 0

RECURSIVE SqrtSearch(_, _, _)
SqrtSearch(n, lo, hi) ==
    IF lo >= hi THEN lo
    ELSE LET mid == (lo + hi + 1) \div 2
         IN  IF mid * mid <= n THEN SqrtSearch(n, mid, hi)
             ELSE SqrtSearch(n, lo, mid - 1)

\* np.sqrt (argument >= 0), rounded down
Sqrt(x) == SqrtSearch(x * Scale, 0, 46340)

\* sine on [0, pi] (Bhaskara's rational approximation)
SinHalfTurn(x) ==
    TDiv(16 * x * (Pi - x) * Scale, 5 * Pi * Pi - 4 * x * (Pi - x))

\* np.sin (radians): odd, period 2 pi, Sin(0) = 0
Sin(x) ==
    LET r == x % (2 * Pi)
    IN  IF r <= Pi THEN SinHalfTurn(r) ELSE -SinHalfTurn(r - Pi)

\* the cosine taken for the sine
CosAsSin(x) == Sin(x)

\* np.cos (radians): Cos(0) = 1
Cos(x) == Sin(x + Pi \div 2)

\* arctangent of a ratio z with |z| <= 1
ArcTanUnit(z) == FMul(z, Pi \div 4) + FMul(FMul(27, z), Num(1) - Abs(z))

\* np.arctan2(y, x): the angle of the vector (x, y), in (-pi, pi]
ArcTan2(y, x) ==
    IF x = 0 /\ y = 0 THEN 0
    ELSE IF Abs(y) <= Abs(x)
         THEN LET base == ArcTanUnit(FDiv(y, x))
              IN  IF x > 0 THEN base
                  ELSE IF y >= 0 THEN base + Pi ELSE base - Pi
         ELSE LET base == ArcTanUnit(FDiv(x, y))
              IN  IF y > 0 THEN Pi \div 2 - base ELSE -(Pi \div 2) - base

\* np.radians
Radians(deg) == FDiv(FMul(deg, Pi), Num(180))

\* np.degrees
Degrees(rad) == FDiv(FMul(rad, Num(180)), Pi)

(* ------------------------------------------------------------------ *)
(* simulator_v2.py                                                    *)
(* ------------------------------------------------------------------ *)

\* sea-level air density (kg/m^3), 1.225
rho == 122

\* A = np.pi * (rocket_diameter / 2)**2
Area(p) == FMul(Pi, Sq(FDiv(p.rocket_diameter, Num(2))))

\* F_drag = 0.5 * rho * (v**2) * C_d * A
V2DragMagnitude(v, p) ==
    FMul(FMul(FMul(FMul(50, rho), Sq(v)), p.C_d), Area(p))

\* the drag term without np.sign: v**2 has lost the direction
V2DragForceUnsigned(F_drag, v) == -F_drag

\* the drag term of F_net:  - (F_drag * np.sign(v))
V2DragForce(F_drag, v) == -FMul(F_drag, Sign(v))

\* v = v + a * dt ; h = h + v * dt
V2Euler(h, v, a) ==
    LET v_new == v + FMul(a, dt)
    IN  <<v_new, h + FMul(v_new, dt)>>

\* while h >= 0 or t == 0
V2LoopCond(s) == s.h >= 0 \/ s.t = 0

V2Init(p) ==
    [pc |-> "loop", t |-> 0, h |-> 0, v |-> 0, m |-> p.initial_mass,
     time_list |-> <<>>, height_list |-> <<>>, velocity_list |-> <<>>,
     acceleration_list |-> <<>>,
     current_thrust |-> 0, F_drag |-> 0, F_net |-> 0, a |-> 0,
     apogee_index |-> 0, apogee_height |-> 0, apogee_time |-> 0]

\* one iteration of the main loop
V2Body(s, p) ==
    LET current_thrust == CurrentThrust(s.t, p)
        m == CurrentMass(s.t, p)
        F_drag == V2DragMagnitude(s.v, p)
        F_net == current_thrust - FMul(m, p.g) + V2DragForce(F_drag, s.v)
        a == FDiv(F_net, m)
        vh == V2Euler(s.h, s.v, a)
    IN  [s EXCEPT
           !.time_list = Append(s.time_list, s.t),
           !.height_list = Append(s.height_list, s.h),
           !.velocity_list = Append(s.velocity_list, s.v),
           !.current_thrust = current_thrust,
           !.m = m,
           !.F_drag = F_drag,
           !.F_net = F_net,
           !.a = a,
           !.acceleration_list = Append(s.acceleration_list, a),
           !.v = vh[1],
           !.h = vh[2],
           !.t = s.t + dt]

\* data processing after the loop
V2PostBody(s) ==
    LET apogee_index == ArgMax(s.height_list)
    IN  [s EXCEPT
           !.pc = "done",
           !.apogee_index = apogee_index,
           !.apogee_height = s.height_list[apogee_index],
           !.apogee_time = s.time_list[apogee_index]]

V2Loop ==
    \E i \in DOMAIN st :
    /\ cfg[i].script = 2
    /\ st[i].pc = "loop"
    /\ V2LoopCond(st[i])
    /\ Len(st[i].time_list) < MaxSteps
    /\ st' = [st EXCEPT ![i] = V2Body(st[i], cfg[i])]
    /\ UNCHANGED cfg

V2Post ==
    \E i \in DOMAIN st :
    /\ cfg[i].script = 2
    /\ st[i].pc = "loop"
    /\ ~V2LoopCond(st[i])
    /\ st' = [st EXCEPT ![i] = V2PostBody(st[i])]
    /\ UNCHANGED cfg

(* ------------------------------------------------------------------ *)
(* simulator_v3.py                                                    *)
(* ------------------------------------------------------------------ *)

\* speed below which no drag direction is computed, 1e-6
Threshold == 0

\* v_mag = np.sqrt(vx**2 + vy**2)
V3Speed(vx, vy) == Sqrt(Sq(vx) + Sq(vy))

\* F_drag = 0.5 * rho * v_mag**2 * C_d * A
V3DragMagnitude(v_mag, p) ==
    FMul(FMul(FMul(FMul(50, rho), Sq(v_mag)), p.C_d), Area(p))

\* drag_Fx, drag_Fy = 0, 0 ; if v_mag > 1e-6: -F_drag * (vc / v_mag)
V3DragComponent(F_drag, vc, v_mag) ==
    IF v_mag > Threshold THEN FMul(-F_drag, FDiv(vc, v_mag)) ELSE 0

\* alpha = theta - velocity_angle, velocity_angle = np.arctan2(vx, vy)
V3AngleOfAttack(theta, vx, vy) == theta - ArcTan2(vx, vy)

\* the torque with the leading minus sign dropped
V3TorquePositive(F_drag, cg_to_cp_distance, alpha) ==
    FMul(FMul(F_drag, cg_to_cp_distance), Sin(alpha))

\* torque = -F_drag * cg_to_cp_distance * np.sin(alpha)
V3Torque(F_drag, cg_to_cp_distance, alpha) ==
    FMul(FMul(-F_drag, cg_to_cp_distance), Sin(alpha))

\* explicit Euler: the position advanced with the old velocity
V3EulerExplicit(pos, vel, acc) ==
    <<vel + FMul(acc, dt), pos + FMul(vel, dt)>>

\* vel += acc * dt ; pos += vel * dt
V3Euler(pos, vel, acc) ==
    LET vel_new == vel + FMul(acc, dt)
    IN  <<vel_new, pos + FMul(vel_new, dt)>>

\* while y >= 0 or t == 0
V3LoopCond(s) == s.y >= 0 \/ s.t = 0

V3Init(p) ==
    [pc |-> "loop", x |-> 0, y |-> 0, vx |-> 0, vy |-> 0,
     theta |-> Radians(p.initial_angle_deg), omega |-> 0,
     m |-> p.initial_mass, t |-> 0,
     time_l |-> <<>>, x_l |-> <<>>, y_l |-> <<>>, vx_l |-> <<>>,
     vy_l |-> <<>>, theta_l |-> <<>>, omega_l |-> <<>>,
     current_thrust |-> 0, Tx |-> 0, Ty |-> 0, Fg_y |-> 0,
     v_mag |-> 0, F_drag |-> 0, drag_Fx |-> 0, drag_Fy |-> 0,
     F_net_x |-> 0, F_net_y |-> 0, velocity_angle |-> 0, alpha |-> 0,
     torque |-> 0, ax |-> 0, ay |-> 0, alpha_ang |-> 0,
     apogee_height |-> 0]

\* one iteration of the main loop
V3Body(s, p) ==
    LET current_thrust == CurrentThrust(s.t, p)
        m == CurrentMass(s.t, p)
        Tx == FMul(current_thrust, Sin(s.theta))
        Ty == FMul(current_thrust, Cos(s.theta))
        Fg_y == FMul(-m, p.g)
        v_mag == V3Speed(s.vx, s.vy)
        F_drag == V3DragMagnitude(v_mag, p)
        drag_Fx == V3DragComponent(F_drag, s.vx, v_mag)
        drag_Fy == V3DragComponent(F_drag, s.vy, v_mag)
        F_net_x == Tx + drag_Fx
        F_net_y == Ty + Fg_y + drag_Fy
        velocity_angle == ArcTan2(s.vx, s.vy)
        alpha == V3AngleOfAttack(s.theta, s.vx, s.vy)
        torque == V3Torque(F_drag, p.cg_to_cp_distance, alpha)
        ax == FDiv(F_net_x, m)
        ay == FDiv(F_net_y, m)
        alpha_ang == FDiv(torque, p.moment_of_inertia_I)
        xs == V3Euler(s.x, s.vx, ax)
        ys == V3Euler(s.y, s.vy, ay)
        ths == V3Euler(s.theta, s.omega, alpha_ang)
    IN  [s EXCEPT
           !.time_l = Append(s.time_l, s.t),
           !.x_l = Append(s.x_l, s.x),
           !.y_l = Append(s.y_l, s.y),
           !.vx_l = Append(s.vx_l, s.vx),
           !.vy_l = Append(s.vy_l, s.vy),
           !.theta_l = Append(s.theta_l, Degrees(s.theta)),
           !.omega_l = Append(s.omega_l, Degrees(s.omega)),
           !.current_thrust = current_thrust,
           !.m = m,
           !.Tx = Tx, !.Ty = Ty, !.Fg_y = Fg_y,
           !.v_mag = v_mag, !.F_drag = F_drag,
           !.drag_Fx = drag_Fx, !.drag_Fy = drag_Fy,
           !.F_net_x = F_net_x, !.F_net_y = F_net_y,
           !.velocity_angle = velocity_angle, !.alpha = alpha,
           !.torque = torque,
           !.ax = ax, !.ay = ay, !.alpha_ang = alpha_ang,
           !.vx = xs[1], !.x = xs[2],
           !.vy = ys[1], !.y = ys[2],
           !.omega = ths[1], !.theta = ths[2],
           !.t = s.t + dt]

\* apogee_height = np.max(y_l)
V3PostBody(s) ==
    [s EXCEPT !.pc = "done", !.apogee_height = NpMax(s.y_l)]

V3Loop ==
    \E i \in DOMAIN st :
    /\ cfg[i].script = 3
    /\ st[i].pc = "loop"
    /\ V3LoopCond(st[i])
    /\ Len(st[i].time_l) < MaxSteps
    /\ st' = [st EXCEPT ![i] = V3Body(st[i], cfg[i])]
    /\ UNCHANGED cfg

V3Post ==
    \E i \in DOMAIN st :
    /\ cfg[i].script = 3
    /\ st[i].pc = "loop"
    /\ ~V3LoopCond(st[i])
    /\ st' = [st EXCEPT ![i] = V3PostBody(st[i])]
    /\ UNCHANGED cfg

(* ------------------------------------------------------------------ *)
(* Configurations                                                     *)
(* ------------------------------------------------------------------ *)

\* engine parameters and g (a module constant of every script); g = 0
\* is an environment in which the net force never turns downward
Engines ==
    [initial_mass : {Num(1)},
     propellant_mass : {25, 50},
     burn_time : {Num(1), 250, Num(3)},
     thrust : {0, Num(15), Num(30)},
     g : {0, 981}]

DragCoefficients == {0, 55, 200, 300}

Aero2 == [rocket_diameter : {20}, C_d : DragCoefficients]

Aero3 ==
    [rocket_diameter : {20}, C_d : {0, 58},
     cg_to_cp_distance : {10, -10},
     moment_of_inertia_I : {22},
     initial_angle_deg : {0, Num(2), Num(20)}]

V1Cfg(e) == [script |-> 1] @@ e

V2Cfg(e, a) == [script |-> 2] @@ e @@ a

V3Cfg(e, a) == [script |-> 3] @@ e @@ a

Configs ==
    {V1Cfg(e) : e \in Engines}
        \cup {V2Cfg(e, a) : e \in Engines, a \in Aero2}
        \cup {V3Cfg(e, a) : e \in Engines, a \in Aero3}

StartState(p) ==
    IF p.script = 1 THEN V1Init(p)
    ELSE IF p.script = 2 THEN V2Init(p)
    ELSE V3Init(p)

\* one execution of one of the scripts
Init ==
    \E p \in Configs :
        /\ cfg = <<p>>
        /\ st = <<StartState(p)>>

Next == V1Loop \/ V1Post \/ V2Loop \/ V2Post \/ V3Loop \/ V3Post

Spec == Init /\ [][Next]_vars

\* engines flown under gravity
FlightEngines == {e \in Engines : e.g > 0}

\* the point-mass script and the rigid-body script run side by side on
\* the same engine
InitPair ==
    \E e \in FlightEngines, a \in Aero3 :
        /\ cfg = <<V1Cfg(e), V3Cfg(e, a)>>
        /\ st = <<V1Init(cfg[1]), V3Init(cfg[2])>>

NextPair == V1Loop \/ V1Post \/ V3Loop \/ V3Post

SpecPair == InitPair /\ [][NextPair]_vars

\* the drag script run twice on the same engine and airframe, each run
\* with its own drag coefficient
InitDrag ==
    \E e \in FlightEngines, a1 \in Aero2, a2 \in Aero2 :
        /\ a1.rocket_diameter = a2.rocket_diameter
        /\ cfg = <<V2Cfg(e, a1), V2Cfg(e, a2)>>
        /\ st = <<V2Init(cfg[1]), V2Init(cfg[2])>>

NextDrag == V2Loop \/ V2Post

SpecDrag == InitDrag /\ [][NextDrag]_vars

(* ------------------------------------------------------------------ *)
(* Views shared by the properties                                     *)
(* ------------------------------------------------------------------ *)

Runs == DOMAIN st

Times(i) == IF cfg[i].script = 3 THEN st[i].time_l ELSE st[i].time_list

Heights(i) == IF cfg[i].script = 3 THEN st[i].y_l ELSE st[i].height_list

Altitude(i) == IF cfg[i].script = 3 THEN st[i].y ELSE st[i].h

\* iterations of the loop completed so far
Steps(i) == Len(Times(i))

Finished(i) == st[i].pc = "done"

\* the time the last completed iteration computed thrust and mass with
TimeUsed(i) == st[i].t - dt

ValidEngine(p) ==
    /\ p.propellant_mass > 0
    /\ p.burn_time > 0
    /\ p.initial_mass > p.propellant_mass

RECURSIVE SeqMaxAbs(_)
SeqMaxAbs(s) ==
    IF Len(s) = 1 THEN Abs(s[1])
    ELSE LET r == SeqMaxAbs(Tail(s)) IN IF Abs(s[1]) >= r THEN Abs(s[1]) ELSE r

(* ------------------------------------------------------------------ *)
(* C1                                                                 *)
(* ------------------------------------------------------------------ *)

C2_MassProfile ==
    /\ [](\A i \in Runs :
            (ValidEngine(cfg[i]) /\ Steps(i) >= 1) =>
                /\ BurnoutMass(cfg[i]) > 0
                /\ st[i].m >= BurnoutMass(cfg[i])
                /\ (TimeUsed(i) >= cfg[i].burn_time
                        => st[i].m = BurnoutMass(cfg[i])))
    /\ [][\A i \in Runs :
            ValidEngine(cfg[i]) => st'[i].m <= st[i].m]_vars

\* an iteration after burnout that follows iterations during the burn,
\* in which the mass had fallen below the initial mass
C2_Witness ==
    \E i \in Runs :
        /\ ValidEngine(cfg[i])
        /\ Steps(i) >= 4
        /\ TimeUsed(i) >= cfg[i].burn_time
        /\ cfg[i].burn_time > 2 * dt
        /\ st[i].m = BurnoutMass(cfg[i])
        /\ st[i].m < cfg[i].initial_mass

(* ------------------------------------------------------------------ *)
(* C3                                                                 *)
(* ------------------------------------------------------------------ *)

\* C3: every run stops, by landing or by a step bound that aborts it:
\* no run is still inside its loop once MaxSteps iterations have been
\* made (the loops have no exit other than the altitude test).
C3_StopsWithinBound ==
    \A i \in Runs :
        Steps(i) >= MaxSteps => st[i].pc # "loop"

\* under gravity every flight of the model lands well before MaxSteps
\* iterations, so a run that reaches MaxSteps is one whose net force
\* never turns downward
LandingRunsFit ==
    \A i \in Runs : cfg[i].g > 0 => Steps(i) < MaxSteps - 5

\* without gravity and without drag the vehicle never comes back
NoGravityNeverLands ==
    \A i \in Runs :
        (cfg[i].g = 0 /\ cfg[i].script = 1) =>
            (st[i].h >= 0 /\ st[i].v >= 0 /\ st[i].pc = "loop")

(* ------------------------------------------------------------------ *)
(* C5                                                                 *)
(* ------------------------------------------------------------------ *)

\* C5: the reported maximum speed is the maximum of |v| over the whole
\* recorded trajectory, descent samples included.
C5_MaxSpeedIsMagnitude ==
    \A i \in Runs :
        (cfg[i].script = 1 /\ Finished(i)) =>
            st[i].max_velocity = SeqMaxAbs(st[i].velocity_list)

(* ------------------------------------------------------------------ *)
(* C7                                                                 *)
(* ------------------------------------------------------------------ *)

\* thrust exceeds the launch weight
LiftsOff(p) == p.thrust > FMul(p.initial_mass, p.g)

\* C7 as stated: in the no-drag loop with thrust > initial mass x g, the
\* recorded altitude increases strictly from every sample with
\* t <= burn duration to the next one, and the recorded velocity is
\* strictly positive at every sample after the first during the burn.
C7_ClimbsThroughBurnout ==
    \A i \in Runs :
        (cfg[i].script = 1 /\ LiftsOff(cfg[i])) =>
            /\ \A k \in 1..(Steps(i) - 1) :
                   st[i].time_list[k] <= cfg[i].burn_time
                       => st[i].height_list[k + 1] > st[i].height_list[k]
            /\ \A k \in 2..Steps(i) :
                   st[i].time_list[k] <= cfg[i].burn_time
                       => st[i].velocity_list[k] > 0

\* C7 amended: in the no-drag loop with thrust > initial mass x g, the
\* recorded altitude increases strictly from every sample with
\* t < burn duration to the next one, so it increases up to the first
\* sample at or after burnout; the recorded velocity is strictly
\* positive at every sample that follows a sample with t < burn duration.
C7_ClimbsDuringBurn ==
    \A i \in Runs :
        (cfg[i].script = 1 /\ LiftsOff(cfg[i])) =>
            /\ \A k \in 1..(Steps(i) - 1) :
                   st[i].time_list[k] < cfg[i].burn_time
                       => st[i].height_list[k + 1] > st[i].height_list[k]
            /\ \A k \in 2..Steps(i) :
                   st[i].time_list[k - 1] < cfg[i].burn_time
                       => st[i].velocity_list[k] > 0

\* a flight under gravity recorded through its burn and past its apogee
C7_Witness ==
    \E i \in Runs :
        /\ cfg[i].script = 1
        /\ LiftsOff(cfg[i])
        /\ cfg[i].g > 0
        /\ cfg[i].burn_time > 2 * dt
        /\ Steps(i) >= 6
        /\ Last(st[i].velocity_list) < 0

(* ------------------------------------------------------------------ *)
(* C8                                                                 *)
(* ------------------------------------------------------------------ *)

Opposes(f, v) ==
    /\ (v > 0 => f <= 0)
    /\ (v < 0 => f >= 0)
    /\ (v = 0 => f = 0)

\* the drag term inside F_net of the 1-DOF drag loop
V2DragTerm(s, p) == s.F_net - (s.current_thrust - FMul(s.m, p.g))

\* C9: in every iteration each drag force component has the sign
\* opposite to the velocity component it was computed from, or is zero;
\* at zero speed (rigid body: speed not above the threshold) the drag
\* force is exactly zero.
C9_DragOpposesVelocity ==
    \A i \in Runs :
        Steps(i) >= 1 =>
            /\ cfg[i].script = 2 =>
                  LET v_old == Last(st[i].velocity_list)
                      drag == V2DragTerm(st[i], cfg[i])
                  IN  /\ st[i].F_drag >= 0
                      /\ Opposes(drag, v_old)
            /\ cfg[i].script = 3 =>
                  LET vx_old == Last(st[i].vx_l)
                      vy_old == Last(st[i].vy_l)
                  IN  /\ st[i].F_drag >= 0
                      /\ Opposes(st[i].drag_Fx, vx_old)
                      /\ Opposes(st[i].drag_Fy, vy_old)
                      /\ (st[i].v_mag <= Threshold =>
                              st[i].drag_Fx = 0 /\ st[i].drag_Fy = 0)
                      /\ ((vx_old = 0 /\ vy_old = 0) => st[i].v_mag = 0)

\* drag pushing upward on a descending 1-DOF vehicle
C9_Witness ==
    \E i \in Runs :
        /\ cfg[i].script = 2
        /\ Steps(i) >= 1
        /\ Last(st[i].velocity_list) < 0
        /\ V2DragTerm(st[i], cfg[i]) > 0

(* ------------------------------------------------------------------ *)
(* C10                                                                *)
(* ------------------------------------------------------------------ *)

\* C10: in every iteration of the rigid-body loop the angle of attack
\* is the attitude angle minus the velocity vector's angle from
\* vertical; with positive CG-to-CP distance the torque has the sign
\* opposite to sin(alpha) (torque x sin(alpha) <= 0); the torque is 0
\* when the drag magnitude is 0 or alpha is 0; and the
\* opposite CG-to-CP distance gives the opposite torque.
C10_RestoringTorque ==
    \A i \in Runs :
        (cfg[i].script = 3 /\ Steps(i) >= 1) =>
            LET s == st[i]
                theta_old == s.theta - FMul(s.omega, dt)
            IN  /\ s.velocity_angle = ArcTan2(Last(s.vx_l), Last(s.vy_l))
                /\ s.alpha = theta_old - s.velocity_angle
                /\ (cfg[i].cg_to_cp_distance > 0
                        => Opposes(s.torque, Sin(s.alpha)))
                /\ ((s.F_drag = 0 \/ s.alpha = 0) => s.torque = 0)
                /\ V3Torque(s.F_drag, -cfg[i].cg_to_cp_distance, s.alpha)
                       = -s.torque

\* a nonzero restoring torque against a positive angle of attack
C10_Witness ==
    \E i \in Runs :
        /\ cfg[i].script = 3
        /\ Steps(i) >= 1
        /\ cfg[i].cg_to_cp_distance > 0
        /\ Sin(st[i].alpha) > 0
        /\ st[i].torque < 0

(* ------------------------------------------------------------------ *)
(* C4  (checked under SpecPair: run 1 is v1, run 2 is v3)             *)
(* ------------------------------------------------------------------ *)

AllZero(s) == \A k \in 1..Len(s) : s[k] = 0

Min(a, b) == IF a <= b THEN a ELSE b

\* C4: with drag coefficient 0 and initial attitude angle 0, and the
\* same engine and step size, the rigid-body loop and the point-mass
\* loop record the same time, altitude (y = h) and vertical velocity
\* (vy = v) at every recorded step and stop after the same number of
\* steps, while the rigid-body x, vx, attitude angle and angular
\* velocity stay 0.
C4_Reduction ==
    (cfg[2].C_d = 0 /\ cfg[2].initial_angle_deg = 0) =>
        /\ \A k \in 1..Min(Steps(1), Steps(2)) :
               /\ st[2].time_l[k] = st[1].time_list[k]
               /\ st[2].y_l[k] = st[1].height_list[k]
               /\ st[2].vy_l[k] = st[1].velocity_list[k]
        /\ AllZero(st[2].x_l) /\ AllZero(st[2].vx_l)
        /\ AllZero(st[2].theta_l) /\ AllZero(st[2].omega_l)
        /\ st[2].x = 0 /\ st[2].vx = 0
        /\ st[2].theta = 0 /\ st[2].omega = 0
        /\ (Finished(1) => Steps(2) <= Steps(1))
        /\ (Finished(2) => Steps(1) <= Steps(2))
        /\ ((Finished(1) /\ Finished(2)) => Steps(1) = Steps(2))

\* both loops have flown the same powered flight to the ground
C4_Witness ==
    /\ cfg[2].C_d = 0
    /\ cfg[2].initial_angle_deg = 0
    /\ LiftsOff(cfg[1])
    /\ Finished(1)
    /\ Finished(2)
    /\ Steps(2) >= 10

(* ------------------------------------------------------------------ *)
(* C6  (checked under SpecDrag: runs 1 and 2 are v2)                  *)
(* ------------------------------------------------------------------ *)

\* C6: with the engine and every other parameter the same, the apogee
\* (maximum recorded altitude) of the 1-DOF drag loop does not increase
\* when the drag coefficient increases.
C6_ApogeeMonotone ==
    (Finished(1) /\ Finished(2) /\ cfg[1].C_d <= cfg[2].C_d) =>
        st[2].apogee_height <= st[1].apogee_height

====
